---- MODULE Spec2Model ----
(***************************************************************************)
(* Model of sm2_7_db_search_reader.py: the STRmix 2.7 database-search      *)
(* results reader.  The module-level code loads the decon table and        *)
(* derives the lowest DNA amount of every row; main() parses every         *)
(* results.xml document with parseResultsXMLFile, collects the rows in     *)
(* lr_array and hands them to makeDataFrameAndExport.                      *)
(*                                                                         *)
(* Text values are TLA+ strings.  A sample identifier, the one string the  *)
(* program takes apart (split, count, substring test), is kept as the      *)
(* sequence of its characters and joined to a string where the program     *)
(* uses it whole.  An LR is kept as its text, as the program keeps it, and *)
(* float() gives its value in tenths.                                      *)
(***************************************************************************)
EXTENDS Integers, Sequences, FiniteSets, TLC

VARIABLES
    decon_rows,          \* the rows of DECON_FILE: [id, amounts]
    decon_data,          \* the decon table with its "Lowest DNA Amount" column
    pc,                  \* position of the program
    found,               \* how many documents main's loop has taken so far
    file,                \* the document handed to parseResultsXMLFile
    temp_array,          \* what parseResultsXMLFile returned (main, line 293)
    reparsed,            \* the rows of temp_array parsed a second time
    lr_array,            \* main's run-wide list of rows
    alreadyAppendedSet,  \* parseResultsXMLFile's set of labels already seen
    error,               \* the exception that ended the run, or None
    files,               \* the CSV files written, by name
    mixArgs,             \* the arguments of a contributorsList call
    contrib_list         \* what contributorsList returned

vars == <<decon_rows, decon_data, pc, found, file, temp_array, reparsed, lr_array,
          alreadyAppendedSet, error, files, mixArgs, contrib_list>>

None == "None"

(***************************************************************************)
(* Bounds of the model.                                                    *)
(***************************************************************************)
MaxAmount == 5      \* the largest DNA amount in a decon row
MaxMixLen == 2      \* the longest mix_num handed to contributorsList
MaxCount == 9       \* the largest true contributor count handed to it
MaxRows == 2        \* the most stdResult rows of a document
MaxDocs == 2        \* the most documents the glob finds

(***************************************************************************)
(* Python's string operations, on sequences of characters.                 *)
(***************************************************************************)
RECURSIVE Join(_)
Join(chars) == IF chars = <<>> THEN "" ELSE Head(chars) \o Join(Tail(chars))

RECURSIVE SplitFrom(_, _, _, _)
SplitFrom(chars, sep, cur, acc) ==
    IF chars = <<>> THEN Append(acc, cur)
    ELSE IF Head(chars) = sep
         THEN SplitFrom(Tail(chars), sep, <<>>, Append(acc, cur))
         ELSE SplitFrom(Tail(chars), sep, Append(cur, Head(chars)), acc)

\* str.split(sep) with a one-character separator
Split(chars, sep) == SplitFrom(chars, sep, <<>>, <<>>)

\* str.count(c) for a one-character c
Count(chars, c) == Cardinality({i \in 1..Len(chars) : chars[i] = c})

\* sub in chars
Contains(chars, sub) ==
    \E i \in 1..(Len(chars) - Len(sub) + 1) :
        SubSeq(chars, i, i + Len(sub) - 1) = sub

Digits == <<"0", "1", "2", "3", "4", "5", "6", "7", "8", "9">>

\* str(n) of a natural number
RECURSIVE Str(_)
Str(n) == IF n < 10 THEN Digits[n + 1]
          ELSE Str(n \div 10) \o Digits[(n % 10) + 1]

\* int(text) of the text of a natural number below 100
ToInt(text) == CHOOSE n \in 0..99 : Str(n) = text

\* float(text), in tenths
Float(text) ==
    CASE text = "-5" -> -50
      [] text = "-1" -> -10
      [] text = "0.5" -> 5
      [] text = "5" -> 50

(***************************************************************************)
(* The constants of the program.                                           *)
(***************************************************************************)
LRCUTOFF == -1

mixDictionary ==
    "M1-2" :> <<"12M", "14F", "", "", "">> @@
    "M1-3" :> <<"9F", "21F", "22M", "", "">> @@
    "M1-4" :> <<"3F", "5F", "7M", "16F", "">> @@
    "M1-5" :> <<"26M", "27M", "36F", "37F", "38F">> @@
    "M2-2" :> <<"1M", "22F", "", "", "">> @@
    "M2-3" :> <<"4M", "8F", "34F", "", "">> @@
    "M2-4" :> <<"12F", "17F", "23F", "25M", "">> @@
    "M2-5" :> <<"21M", "28M", "35F", "39F", "40F">>

duplicatesSet ==
    {"Mock_4", "Mock_8", "Mock_17", "Mock_19", "Mock_22_EC", "Mock_22_SF",
     "Mock_23_EC", "Mock_23_SF", "Mock_24_EC", "Mock_24_SF", "Mock_26_A",
     "Mock_26_B", "Mock_27_A", "FD_1", "FD_4", "FD_6", "FD_15", "FD_19",
     "FD_20", "FD_21B", "FD_33B"}

(***************************************************************************)
(* The decon table (module level, lines 61-74).                            *)
(***************************************************************************)
Min(S) == CHOOSE m \in S : \A n \in S : m <= n

\* variant: the filter keeps zero (i >= 0)
LowestOfNonNegative(x) ==
    LET kept == {x[i] : i \in {j \in 1..Len(x) : x[j] >= 0}}
    IN  IF kept = {} THEN 0 ELSE Min(kept)

\* lines 68-72: min(filter(lambda i: i > 0, x)), 0 when min() raises ValueError
LowestOf(x) ==
    LET positive == {x[i] : i \in {j \in 1..Len(x) : x[j] > 0}}
    IN  IF positive = {} THEN 0 ELSE Min(positive)

\* lines 67-74: the column "Lowest DNA Amount", one value per row
LoadDecon(rows) ==
    [r \in 1..Len(rows) |->
        [id |-> rows[r].id, amounts |-> rows[r].amounts,
         lowest |-> LowestOf(rows[r].amounts)]]

(***************************************************************************)
(* contributorsList (lines 129-135).                                       *)
(***************************************************************************)
\* variant: the key is built without the dash
contributorsListNoDash(mix_num, contributors) ==
    LET mixCode == mix_num \o contributors
    IN  IF mixCode \in DOMAIN mixDictionary
        THEN mixDictionary[mixCode]
        ELSE <<"", "", "", "", "">>

contributorsList(mix_num, contributors) ==
    LET mixCode == mix_num \o "-" \o contributors
    IN  IF mixCode \in DOMAIN mixDictionary
        THEN mixDictionary[mixCode]
        ELSE <<"", "", "", "", "">>

(***************************************************************************)
(* parseResultsXMLFile (lines 139-241).  A document is what the function   *)
(* reads of the XML tree: isDB (a databaseSearchResults element is there), *)
(* caseNumber, sampleId (its characters), caseNotes (None when the         *)
(* element is missing), seed, contributors and the stdResult elements in   *)
(* document order, each [caseNumber, sample, lr].                          *)
(***************************************************************************)
Last(s) == s[Len(s)]

InList(x, list) == \E i \in 1..Len(list) : list[i] = x

\* variant: the set is not emptied between calls
InitialAppendedSetKept(previous) == previous

\* line 199: the set of labels already seen starts empty in every call
InitialAppendedSet(previous) == {}

\* variant: the duplicates set is not consulted
ExcludedReservedOnly(sample) == sample = "40F"

\* lines 205-208: rows that are skipped whatever else they carry
Excluded(sample) == sample \in duplicatesSet \/ sample = "40F"

\* lines 210-211: result[1] is rewritten in place
Rename(sample) == IF sample = "Mock_6" THEN "40F" ELSE sample

\* variant: no row is taken for one already seen
FirstSeenAlways(sample, seen) == TRUE

\* line 217: the row is new when its label is not in alreadyAppendedSet
FirstSeen(sample, seen) == sample \notin seen

\* lines 224-229
TrueOrNon(sample, contribs) ==
    IF InList(sample, contribs) THEN "True" ELSE "Non-Contributor"

\* variant: the cutoff alone decides
IncludedByCutoff(lr, sample, contribs) == Float(lr) > LRCUTOFF * 10

\* variant: an LR equal to the cutoff passes
IncludedFromCutoff(lr, sample, contribs) ==
    Float(lr) >= LRCUTOFF * 10 \/ InList(sample, contribs)

\* line 233
Included(lr, sample, contribs) ==
    Float(lr) > LRCUTOFF * 10 \/ InList(sample, contribs)

\* lines 234-237: temp = sampleData + [true_or_non, lowest_DNA] + result,
\* named by the columns makeDataFrameAndExport gives them (lines 249-253)
MakeRow(sampleData, true_or_non, lowest_DNA, result) ==
    [RunType |-> sampleData.RunType,
     CaseNumber |-> sampleData.CaseNumber,
     SampleID |-> sampleData.SampleID,
     CaseNotes |-> sampleData.CaseNotes,
     Seed |-> sampleData.Seed,
     Contributors |-> sampleData.Contributors,
     TrueContributors |-> sampleData.TrueContributors,
     ContributorList |-> sampleData.ContributorList,
     TrueNon |-> true_or_non,
     TemplateRFU |-> lowest_DNA,
     ProfileType |-> result.caseNumber,
     ProfileID |-> result.sample,
     LR |-> result.lr]

\* lines 200-238: the loop over resultsList; gives lrData and the set of
\* labels seen when the loop ends
RECURSIVE ResultLoop(_, _, _, _, _, _)
ResultLoop(resultsList, sampleData, contribs, lowest_DNA, seen, lrData) ==
    IF resultsList = <<>> THEN [lrData |-> lrData, seen |-> seen]
    ELSE
      LET raw == Head(resultsList)
          rest == Tail(resultsList)
          result == [raw EXCEPT !.sample = Rename(raw.sample)]
      IN  IF Excluded(raw.sample)
          THEN ResultLoop(rest, sampleData, contribs, lowest_DNA, seen, lrData)
          ELSE IF ~FirstSeen(result.sample, seen)
          THEN ResultLoop(rest, sampleData, contribs, lowest_DNA, seen, lrData)
          ELSE
            LET seen2 == seen \cup {result.sample}
                true_or_non == TrueOrNon(result.sample, contribs)
            IN  IF Included(result.lr, result.sample, contribs)
                THEN ResultLoop(rest, sampleData, contribs, lowest_DNA, seen2,
                         Append(lrData,
                                MakeRow(sampleData, true_or_non, lowest_DNA, result)))
                ELSE ResultLoop(rest, sampleData, contribs, lowest_DNA, seen2, lrData)

\* lines 168-169 and 185-190: the header values derived from the sample id
MixNumber(sampleId) == Split(sampleId, "_")[1]

TrueContributorCount(sampleId) == Str(Count(Split(sampleId, "_")[2], "-") + 1)

ContribList(sampleId) ==
    IF Contains(MixNumber(sampleId), <<"S", "S">>)
    THEN <<Join(Split(Last(Split(sampleId, "_")), " ")[1]), "", "", "", "">>
    ELSE contributorsList(Join(MixNumber(sampleId)), TrueContributorCount(sampleId))

\* lines 154-191: sampleData
SampleData(doc) ==
    [RunType |-> "DB Search",
     CaseNumber |-> doc.caseNumber,
     SampleID |-> Join(doc.sampleId),
     CaseNotes |-> IF doc.caseNotes = None THEN "" ELSE doc.caseNotes,
     Seed |-> doc.seed,
     Contributors |-> doc.contributors,
     TrueContributors |-> TrueContributorCount(doc.sampleId),
     ContributorList |-> ContribList(doc.sampleId)]

\* line 194: the rows of the decon table with this sample id
DeconMatches(decon, sampleID) ==
    SelectSeq(decon, LAMBDA row : row.id = sampleID)

\* The whole call: the exception it raises (None when it returns), the list
\* it returns, and alreadyAppendedSet as the call leaves it.  previous is
\* alreadyAppendedSet as the call before left it.
parseResultsXMLFile(doc, decon, previous) ==
    IF ~doc.isDB
    THEN [raised |-> "Exception", lrData |-> <<>>, seen |-> previous]
    ELSE IF Len(Split(doc.sampleId, "_")) < 2
    THEN [raised |-> "IndexError: sampleID", lrData |-> <<>>, seen |-> previous]
    ELSE IF DeconMatches(decon, Join(doc.sampleId)) = <<>>
    THEN [raised |-> "IndexError: decon_data", lrData |-> <<>>, seen |-> previous]
    ELSE
      LET lowest_DNA == DeconMatches(decon, Join(doc.sampleId))[1].lowest
          loop == ResultLoop(doc.stdResults, SampleData(doc),
                             ContribList(doc.sampleId), lowest_DNA,
                             InitialAppendedSet(previous), <<>>)
      IN  [raised |-> None, lrData |-> loop.lrData, seen |-> loop.seen]

(***************************************************************************)
(* Loading the decon table: the rows of the file, then the module-level    *)
(* code of lines 61-74.                                                    *)
(***************************************************************************)
AmountRows == [1..5 -> -1..MaxAmount]

InitLowest ==
    /\ decon_rows \in {<<[id |-> "S", amounts |-> x]>> : x \in AmountRows}
    /\ decon_data = <<>>
    /\ pc = "load"
    /\ file = None
    /\ temp_array = <<>>
    /\ reparsed = <<>>
    /\ lr_array = <<>>
    /\ alreadyAppendedSet = {}
    /\ error = None
    /\ files = <<>>
    /\ found = 0
    /\ mixArgs = <<>>
    /\ contrib_list = <<>>

LoadDeconData ==
    /\ pc = "load"
    /\ decon_data' = LoadDecon(decon_rows)
    /\ pc' = "loaded"
    /\ UNCHANGED <<found, decon_rows, file, temp_array, reparsed, lr_array,
                   alreadyAppendedSet, error, files, mixArgs, contrib_list>>

SpecLowest == InitLowest /\ [][LoadDeconData]_vars

(***************************************************************************)
(* A call of contributorsList with a mix_num of at most MaxMixLen          *)
(* characters and the text of a count.                                     *)
(***************************************************************************)
MixAlphabet == {"M", "1", "2", "9", "-"}

MixNums == {Join(chars) : chars \in UNION {[1..k -> MixAlphabet] : k \in 0..MaxMixLen}}

InitContrib ==
    /\ mixArgs \in MixNums \X {Str(n) : n \in 1..MaxCount}
    /\ contrib_list = <<>>
    /\ pc = "call"
    /\ decon_rows = <<>>
    /\ decon_data = <<>>
    /\ file = None
    /\ temp_array = <<>>
    /\ reparsed = <<>>
    /\ lr_array = <<>>
    /\ alreadyAppendedSet = {}
    /\ error = None
    /\ files = <<>>
    /\ found = 0

CallContributorsList ==
    /\ pc = "call"
    /\ contrib_list' = contributorsList(mixArgs[1], mixArgs[2])
    /\ pc' = "returned"
    /\ UNCHANGED <<found, decon_rows, decon_data, file, temp_array, reparsed, lr_array,
                   alreadyAppendedSet, error, files, mixArgs>>

SpecContrib == InitContrib /\ [][CallContributorsList]_vars

(***************************************************************************)
(* C9: for every row of five amounts the lowest amount is the minimum of   *)
(* the values strictly greater than zero, and zero when no value is        *)
(* strictly positive; [0, -1, 5, 3, 0] gives 3 and [0, 0, 0, 0, 0] gives 0.*)
(***************************************************************************)
C9_LowestPositiveAmount ==
    pc = "loaded" =>
        /\ Len(decon_data) = Len(decon_rows)
        /\ \A r \in 1..Len(decon_rows) :
            LET x == decon_rows[r].amounts
                lowest == decon_data[r].lowest
            IN  /\ (\E i \in 1..5 : x[i] > 0) =>
                       /\ lowest > 0
                       /\ \E i \in 1..5 : x[i] = lowest
                       /\ \A i \in 1..5 : x[i] > 0 => lowest <= x[i]
                /\ (\A i \in 1..5 : x[i] <= 0) => lowest = 0
                /\ x = <<0, -1, 5, 3, 0>> => lowest = 3
                /\ x = <<0, 0, 0, 0, 0>> => lowest = 0

C9_Witness ==
    /\ pc = "loaded"
    /\ decon_rows[1].amounts = <<0, -1, 5, 3, 0>>
    /\ decon_data[1].lowest = 3

(***************************************************************************)
(* C8: contributorsList always returns a list of exactly 5 slots: the      *)
(* table entry when mix_num-contributors is a key of mixDictionary (M1, 3  *)
(* gives 9F, 21F, 22M and two empty slots), five empty strings when it is  *)
(* not (M9, 9); in a table entry the first contributors slots are the      *)
(* non-empty ones.                                                         *)
(***************************************************************************)
C8_ContributorsList ==
    pc = "returned" =>
        LET key == mixArgs[1] \o "-" \o mixArgs[2]
        IN  /\ Len(contrib_list) = 5
            /\ key \in {"M1-2", "M1-3", "M1-4", "M1-5", "M2-2", "M2-3", "M2-4", "M2-5"} =>
                   /\ contrib_list = mixDictionary[key]
                   /\ \A i \in 1..5 : contrib_list[i] # "" <=> i <= ToInt(mixArgs[2])
            /\ key \notin {"M1-2", "M1-3", "M1-4", "M1-5", "M2-2", "M2-3", "M2-4", "M2-5"} =>
                   contrib_list = <<"", "", "", "", "">>
            /\ mixArgs = <<"M1", "3">> => contrib_list = <<"9F", "21F", "22M", "", "">>
            /\ mixArgs = <<"M9", "9">> => contrib_list = <<"", "", "", "", "">>

C8_Witness ==
    /\ pc = "returned"
    /\ mixArgs = <<"M9", "9">>
    /\ contrib_list = <<"", "", "", "", "">>

(***************************************************************************)
(* The inputs of a run: sample identifiers, the decon file, documents.     *)
(***************************************************************************)
\* "M1_9F-21F-22M": mixture M1 of three, 9F, 21F and 22M
SID_M1_3 == <<"M", "1", "_", "9", "F", "-", "2", "1", "F", "-", "2", "2", "M">>
\* "M2_a-b-c-d-e": mixture M2 of five, 40F among them
SID_M2_5 == <<"M", "2", "_", "a", "-", "b", "-", "c", "-", "d", "-", "e">>
\* "M1_a-b-c-d-e-f": six contributors, M1-6 is no key of mixDictionary
SID_M1_6 == <<"M", "1", "_", "a", "-", "b", "-", "c", "-", "d", "-", "e", "-", "f">>
\* "SS_9F 2": the single source sample of 9F
SID_SS == <<"S", "S", "_", "9", "F", " ", "2">>
\* "M2_x-y": a sample the decon file has no row for
SID_NoDecon == <<"M", "2", "_", "x", "-", "y">>
\* "M1": a sample id without an underscore
SID_NoSuffix == <<"M", "1">>

\* the decon file; the sample M1_9F-21F-22M has two rows
DeconFile ==
    <<[id |-> "M1_9F-21F-22M", amounts |-> <<0, -1, 5, 3, 0>>],
      [id |-> "M2_a-b-c-d-e", amounts |-> <<2, 1, 4, 1, 3>>],
      [id |-> "M1_9F-21F-22M", amounts |-> <<1, 1, 1, 0, 0>>],
      [id |-> "M1_a-b-c-d-e-f", amounts |-> <<0, 0, 0, 0, 0>>],
      [id |-> "SS_9F 2", amounts |-> <<2, 0, 0, 0, 0>>]>>

SeqsUpTo(S, n) == UNION {[1..k -> S] : k \in 0..n}

Documents(sampleIds, declared, dbFlags, rows) ==
    [isDB : dbFlags, caseNumber : {"Case 1"}, sampleId : sampleIds,
     caseNotes : {None}, seed : {"7"}, contributors : declared,
     stdResults : SeqsUpTo(rows, MaxRows)]

(***************************************************************************)
(* One document parsed, and the rows it gave parsed once more: the same    *)
(* document with the stdResult rows replaced by the [Profile Type,         *)
(* Profile ID, LR] of the rows returned.                                   *)
(***************************************************************************)
DocRows ==
    [caseNumber : {"P1", "P2"}, sample : {"Mock_4", "40F", "Mock_6", "9F"},
     lr : {"-5", "-1", "0.5"}]

DocDocuments ==
    Documents({SID_M1_3, SID_M2_5, SID_M1_6, SID_SS}, {"3"}, {TRUE}, DocRows)

InitDoc ==
    /\ decon_rows = DeconFile
    /\ decon_data = LoadDecon(DeconFile)
    /\ file \in DocDocuments
    /\ pc = "start"
    /\ temp_array = <<>>
    /\ reparsed = <<>>
    /\ lr_array = <<>>
    /\ alreadyAppendedSet = {}
    /\ error = None
    /\ files = <<>>
    /\ found = 0
    /\ mixArgs = <<>>
    /\ contrib_list = <<>>

ParseDoc ==
    /\ pc = "start"
    /\ LET call == parseResultsXMLFile(file, decon_data, alreadyAppendedSet)
       IN  /\ error' = call.raised
           /\ temp_array' = call.lrData
           /\ alreadyAppendedSet' = call.seen
    /\ pc' = "parsed"
    /\ UNCHANGED <<found, decon_rows, decon_data, file, reparsed, lr_array, files,
                   mixArgs, contrib_list>>

ResultsOf(rows) ==
    [i \in 1..Len(rows) |->
        [caseNumber |-> rows[i].ProfileType, sample |-> rows[i].ProfileID,
         lr |-> rows[i].LR]]

ParseAgain ==
    /\ pc = "parsed"
    /\ error = None
    /\ LET again == [file EXCEPT !.stdResults = ResultsOf(temp_array)]
           call == parseResultsXMLFile(again, decon_data, alreadyAppendedSet)
       IN  /\ error' = call.raised
           /\ reparsed' = call.lrData
           /\ alreadyAppendedSet' = call.seen
    /\ pc' = "reparsed"
    /\ UNCHANGED <<found, decon_rows, decon_data, file, temp_array, lr_array, files,
                   mixArgs, contrib_list>>

SpecDoc == InitDoc /\ [][ParseDoc \/ ParseAgain]_vars

(***************************************************************************)
(* What the claims about one document speak of, stated on the document     *)
(* and the list returned, not by the loop.                                 *)
(***************************************************************************)
\* the label of a row after alias rewriting
Normalized(row) == IF row.sample = "Mock_6" THEN "40F" ELSE row.sample

\* the row is dropped by the exclusion set or as the reserved label
DroppedFirst(row) == row.sample \in duplicatesSet \/ row.sample = "40F"

\* the row is the first of its normalized label among the rows not dropped
Survivor(rows, i) ==
    /\ ~DroppedFirst(rows[i])
    /\ \A j \in 1..(i - 1) :
           DroppedFirst(rows[j]) \/ Normalized(rows[j]) # Normalized(rows[i])

\* the resolved ContributorSet of the document
ContributorSet(doc) ==
    {ContribList(doc.sampleId)[i] : i \in 1..5}

Returned == pc = "parsed" /\ error = None

(***************************************************************************)
(* C2 as written: in the list returned for a document every label occurs   *)
(* in at most one row, and that row carries the case number and LR of the  *)
(* first stdResult row in document order having that label after alias     *)
(* rewriting.                                                              *)
(***************************************************************************)
C2_FirstRowOfLabelWins ==
    Returned =>
        /\ \A i, j \in 1..Len(temp_array) :
               temp_array[i].ProfileID = temp_array[j].ProfileID => i = j
        /\ \A i \in 1..Len(temp_array) :
               LET rows == file.stdResults
                   same == {k \in 1..Len(rows) :
                               Normalized(rows[k]) = temp_array[i].ProfileID}
               IN  /\ same # {}
                   /\ temp_array[i].ProfileType = rows[Min(same)].caseNumber
                   /\ temp_array[i].LR = rows[Min(same)].lr

(***************************************************************************)
(* C2 amended: every label occurs in at most one row of the list returned, *)
(* and that row carries the case number and LR of the first stdResult row  *)
(* having that label after alias rewriting among the rows that are not     *)
(* dropped by the exclusion set or as the reserved label 40F.              *)
(***************************************************************************)
C2_FirstKeptRowOfLabelWins ==
    Returned =>
        /\ \A i, j \in 1..Len(temp_array) :
               temp_array[i].ProfileID = temp_array[j].ProfileID => i = j
        /\ \A i \in 1..Len(temp_array) :
               LET rows == file.stdResults
                   same == {k \in 1..Len(rows) :
                               /\ ~DroppedFirst(rows[k])
                               /\ Normalized(rows[k]) = temp_array[i].ProfileID}
               IN  /\ same # {}
                   /\ temp_array[i].ProfileType = rows[Min(same)].caseNumber
                   /\ temp_array[i].LR = rows[Min(same)].lr

\* 9F twice, the second row with another case number and LR: the first is kept
C2_Witness ==
    /\ Returned
    /\ Len(file.stdResults) = 2
    /\ file.stdResults[1] = [caseNumber |-> "P1", sample |-> "9F", lr |-> "0.5"]
    /\ file.stdResults[2] = [caseNumber |-> "P2", sample |-> "9F", lr |-> "-5"]
    /\ Len(temp_array) = 1
    /\ temp_array[1].ProfileType = "P1"
    /\ temp_array[1].LR = "0.5"

C5_Idempotent ==
    pc = "reparsed" => reparsed = temp_array

(***************************************************************************)
(* C5 amended: the rows returned, parsed again with the same document      *)
(* header, give the same list without the rows labelled 40F (the rows      *)
(* rewritten from the alias Mock_6, which the second pass drops as the     *)
(* reserved label); the list is the same when no row was rewritten.        *)
(***************************************************************************)
C5_IdempotentButAlias ==
    pc = "reparsed" =>
        /\ error = None
        /\ reparsed = SelectSeq(temp_array, LAMBDA row : row.ProfileID # "40F")
        /\ (\A k \in 1..Len(file.stdResults) : file.stdResults[k].sample # "Mock_6")
               => reparsed = temp_array

C5_Witness ==
    /\ pc = "reparsed"
    /\ Len(file.stdResults) = 2
    /\ file.stdResults[1].sample = "9F"
    /\ file.stdResults[2].sample = "9F"
    /\ Len(temp_array) = 1
    /\ reparsed = temp_array

(***************************************************************************)
(* makeDataFrameAndExport (lines 244-284): the data frame with its typed   *)
(* columns, and the eleven CSV files.                                      *)
(***************************************************************************)
\* lines 248-258
DataFrame(array) ==
    [i \in 1..Len(array) |->
        [array[i] EXCEPT !.Seed = ToInt(@),
                         !.Contributors = ToInt(@),
                         !.TrueContributors = ToInt(@),
                         !.LR = Float(@)]]

\* variant: the comparison is <=
PartitionUpTo(df, column, n) == SelectSeq(df, LAMBDA row : row[column] <= n)

\* df[df[column] == n]
Partition(df, column, n) == SelectSeq(df, LAMBDA row : row[column] = n)

AllFile == "DB_Search_LR_data.csv"
TNOCFile(n) == "TNOC_" \o Str(n) \o "_DB_Search_LR_data.csv"
ANOCFile(n) == "ANOC_" \o Str(n) \o "_DB_Search_LR_data.csv"

\* lines 262-284: the content of every file written
makeDataFrameAndExport(array) ==
    LET df == DataFrame(array)
    IN  [name \in {AllFile} \cup {TNOCFile(n) : n \in 1..5}
                            \cup {ANOCFile(n) : n \in 1..5} |->
            IF name = AllFile THEN df
            ELSE IF \E n \in 1..5 : name = TNOCFile(n)
            THEN Partition(df, "TrueContributors",
                           CHOOSE n \in 1..5 : name = TNOCFile(n))
            ELSE Partition(df, "Contributors",
                           CHOOSE n \in 1..5 : name = ANOCFile(n))]

(***************************************************************************)
(* main (lines 287-296): the loop over the documents the glob finds, in    *)
(* the order it finds them, then the export.  No exception is caught: one  *)
(* raised by parseResultsXMLFile ends the run where it is.                 *)
(***************************************************************************)
MainRows ==
    {[caseNumber |-> "P1", sample |-> "Mock_4", lr |-> "5"],
     [caseNumber |-> "P2", sample |-> "9F", lr |-> "0.5"]}

MainDocuments ==
    Documents({SID_M1_3, SID_M1_6, SID_SS}, {"2", "6"}, {TRUE}, MainRows)
    \cup Documents({SID_NoDecon, SID_NoSuffix}, {"2"}, {TRUE}, MainRows)
    \cup Documents({SID_M1_3}, {"2"}, {FALSE}, MainRows)

Init ==
    /\ decon_rows = DeconFile
    /\ decon_data = LoadDecon(DeconFile)
    /\ pc = "loop"
    /\ found = 0
    /\ file = None
    /\ temp_array = <<>>
    /\ reparsed = <<>>
    /\ lr_array = <<>>
    /\ alreadyAppendedSet = {}
    /\ error = None
    /\ files = <<>>
    /\ mixArgs = <<>>
    /\ contrib_list = <<>>

\* variant: the exception is caught and the loop goes on
AfterRaiseCaught == "loop"

\* where main is after parseResultsXMLFile has raised: nothing catches it
AfterRaise == "aborted"

\* lines 291-294, the call returns
Extract ==
    /\ pc = "loop"
    /\ found < MaxDocs
    /\ \E doc \in MainDocuments :
        LET call == parseResultsXMLFile(doc, decon_data, alreadyAppendedSet)
        IN  /\ call.raised = None
            /\ file' = doc
            /\ temp_array' = call.lrData
            /\ alreadyAppendedSet' = call.seen
            /\ lr_array' = lr_array \o call.lrData
    /\ found' = found + 1
    /\ UNCHANGED <<decon_rows, decon_data, pc, reparsed, error, files,
                   mixArgs, contrib_list>>

\* lines 291-293, the call raises
ExtractRaises ==
    /\ pc = "loop"
    /\ found < MaxDocs
    /\ \E doc \in MainDocuments :
        LET call == parseResultsXMLFile(doc, decon_data, alreadyAppendedSet)
        IN  /\ call.raised # None
            /\ file' = doc
            /\ error' = call.raised
            /\ alreadyAppendedSet' = call.seen
    /\ found' = found + 1
    /\ pc' = AfterRaise
    /\ UNCHANGED <<decon_rows, decon_data, temp_array, reparsed, lr_array,
                   files, mixArgs, contrib_list>>

\* line 296, when the glob has no more documents
Export ==
    /\ pc = "loop"
    /\ files' = makeDataFrameAndExport(lr_array)
    /\ pc' = "exported"
    /\ UNCHANGED <<found, decon_rows, decon_data, file, temp_array, reparsed,
                   lr_array, alreadyAppendedSet, error, mixArgs, contrib_list>>

Next == Extract \/ ExtractRaises \/ Export

Spec == Init /\ [][Next]_vars

Range(seq) == {seq[i] : i \in 1..Len(seq)}

(***************************************************************************)
(* C1: whatever documents have been parsed, no row of the run-wide list,   *)
(* and no row of a file written from it, has a Profile ID of the           *)
(* duplicates set, whatever the LR of the stdResult row and whatever the   *)
(* ContributorSet of its document.                                         *)
(***************************************************************************)
C1_NoDuplicateLabels ==
    /\ \A i \in 1..Len(lr_array) : lr_array[i].ProfileID \notin duplicatesSet
    /\ \A name \in DOMAIN files :
           \A i \in 1..Len(files[name]) :
               files[name][i].ProfileID \notin duplicatesSet

\* a document with a Mock_4 row of LR 5 and a 9F row gave the 9F row alone
C1_Witness ==
    /\ pc = "exported"
    /\ found > 0
    /\ file.stdResults = <<[caseNumber |-> "P1", sample |-> "Mock_4", lr |-> "5"],
                           [caseNumber |-> "P2", sample |-> "9F", lr |-> "0.5"]>>
    /\ Len(temp_array) = 1
    /\ temp_array[1].ProfileID = "9F"
    /\ Len(files[AllFile]) >= 1

(***************************************************************************)
(* C6 as written: every row of the full file is in exactly one of the five *)
(* TNOC files and in exactly one of the five ANOC files.                   *)
(***************************************************************************)
C6_PartitionComplete ==
    pc = "exported" =>
        \A row \in Range(files[AllFile]) :
            /\ Cardinality({n \in 1..5 : row \in Range(files[TNOCFile(n)])}) = 1
            /\ Cardinality({n \in 1..5 : row \in Range(files[ANOCFile(n)])}) = 1

(***************************************************************************)
(* C6 amended: every row of the full file is in at most one TNOC file and  *)
(* at most one ANOC file: in exactly one TNOC file when its true           *)
(* contributor count is 1 to 5 and in none otherwise, in exactly one ANOC  *)
(* file when its declared contributor count is 1 to 5 and in none          *)
(* otherwise; a partition file holds rows of the full file only, as often  *)
(* as the full file does.                                                  *)
(***************************************************************************)
C6_PartitionWithinRange ==
    pc = "exported" =>
        LET df == files[AllFile]
            times(rows, row) == Cardinality({i \in 1..Len(rows) : rows[i] = row})
        IN  \A row \in Range(df) :
                /\ Cardinality({n \in 1..5 : row \in Range(files[TNOCFile(n)])})
                       = IF row.TrueContributors \in 1..5 THEN 1 ELSE 0
                /\ Cardinality({n \in 1..5 : row \in Range(files[ANOCFile(n)])})
                       = IF row.Contributors \in 1..5 THEN 1 ELSE 0
                /\ \A n \in 1..5 :
                       /\ row \in Range(files[TNOCFile(n)]) =>
                              /\ row.TrueContributors = n
                              /\ times(files[TNOCFile(n)], row) = times(df, row)
                       /\ row \in Range(files[ANOCFile(n)]) =>
                              /\ row.Contributors = n
                              /\ times(files[ANOCFile(n)], row) = times(df, row)
                /\ \A n \in 1..5 :
                       /\ Range(files[TNOCFile(n)]) \subseteq Range(df)
                       /\ Range(files[ANOCFile(n)]) \subseteq Range(df)

\* a row of three true and two declared contributors, in TNOC_3 and ANOC_2
C6_Witness ==
    /\ pc = "exported"
    /\ Len(files[AllFile]) = 2
    /\ files[AllFile][1].TrueContributors = 3
    /\ files[AllFile][1].Contributors = 2
    /\ files[AllFile][1] \in Range(files[TNOCFile(3)])
    /\ files[AllFile][1] \in Range(files[ANOCFile(2)])
    /\ files[AllFile][2].TrueContributors = 6
    /\ files[TNOCFile(5)] = <<>>

(***************************************************************************)
(* C7 as written: when the sample id of a document is not in the decon     *)
(* table the run is not aborted: main goes on with the documents after it  *)
(* and exports.                                                            *)
(***************************************************************************)
C7_RunGoesOn ==
    error = "IndexError: decon_data" => pc \in {"loop", "exported"}

(***************************************************************************)
(* C7 amended: when the sample id of a document is not in the decon table  *)
(* the lookup raises and the whole run is aborted: that document is the    *)
(* last one parsed, the rows of the documents before it are never handed   *)
(* to the exporter, and no file is written.                                *)
(***************************************************************************)
C7_RunAborted ==
    error = "IndexError: decon_data" =>
        /\ pc = "aborted"
        /\ file.sampleId = SID_NoDecon
        /\ files = <<>>
        /\ ~ENABLED Next

\* the lookup failed after another document had given a row
C7_Witness ==
    /\ error = "IndexError: decon_data"
    /\ pc = "aborted"
    /\ Len(lr_array) = 1
    /\ files = <<>>

(***************************************************************************)
(* C10: the list a document gives does not depend on the documents parsed  *)
(* before it: it holds the first kept row of every label of the document   *)
(* that passes the inclusion filter, also of a label an earlier document   *)
(* had; and parsing a document appends that list to the run-wide list and  *)
(* leaves the rows already there as they are.                              *)
(***************************************************************************)
C10_PerDocumentScope ==
    /\ [](pc = "loop" /\ found > 0 =>
            LET rows == file.stdResults
                wanted == {k \in 1..Len(rows) :
                              /\ Survivor(rows, k)
                              /\ \/ Float(rows[k].lr) > LRCUTOFF * 10
                                 \/ Normalized(rows[k]) \in ContributorSet(file)}
            IN  /\ Len(temp_array) = Cardinality(wanted)
                /\ \A k \in wanted :
                       \E i \in 1..Len(temp_array) :
                           /\ temp_array[i].ProfileID = Normalized(rows[k])
                           /\ temp_array[i].LR = rows[k].lr
                /\ Len(lr_array) >= Len(temp_array)
                /\ SubSeq(lr_array, Len(lr_array) - Len(temp_array) + 1,
                          Len(lr_array)) = temp_array)
    /\ [][/\ Len(lr_array') >= Len(lr_array)
          /\ SubSeq(lr_array', 1, Len(lr_array)) = lr_array
          /\ lr_array' # lr_array => lr_array' = lr_array \o temp_array']_vars

\* two documents in a row each gave their 9F row
C10_Witness ==
    /\ pc = "loop"
    /\ found = 2
    /\ Len(lr_array) = 2
    /\ lr_array[1].ProfileID = "9F"
    /\ lr_array[2].ProfileID = "9F"
    /\ temp_array = <<lr_array[2]>>

====
